---- MODULE Spec2Model ----
(***************************************************************************)
(* Model of tools/sidecar.py: the telemetry relay of the hornet node.      *)
(*                                                                         *)
(* Tasks of the asyncio loop: tcp_jsonl_client (stream ingestion), one     *)
(* broadcast_async task per metrics datagram (created by                   *)
(* UdpMetrics.datagram_received through broadcast), one sse_handler per    *)
(* attached dashboard client, _discover_pid_periodically, and the          *)
(* pause/resume request handlers.  A task runs without interruption        *)
(* between two awaits, so one action is the code between two awaits.       *)
(***************************************************************************)
EXTENDS Integers, Sequences, FiniteSets, TLC

\* ---------------------------------------------------------------- bounds
NumSubs == 2
MaxLines == 2
MaxConns == 2
MaxDatagrams == 2
MaxFanoutDatagrams == 1
MaxScans == 3
MaxCalls == 2
MaxExtra == 2

\* ------------------------------------------------------ program constants
RING_MAX == 200

Subs == 1..NumSubs
UdpTasks == 1..MaxDatagrams
TcpTask == 0
Tasks == {TcpTask} \cup UdpTasks

VARIABLES
    RELIABLE_RING,  \* list of packed reliable records
    SUBS,           \* set of registered responses
    tcp,            \* tcp_jsonl_client: its await (and the one it was cancelled in), the number of its connection, its last line
    bc,             \* one broadcast_async activation per task
    waitq,          \* per response: the broadcasts suspended in s.write, in call order
    sub,            \* sse_handler activation per client
    conn,           \* per client: state of its HTTP connection
    wire,           \* per client: the frames passed to resp.write, in call order
    published,      \* history: frames in the order broadcast_async began on them
    nread,          \* number of lines the upstream has delivered so far
    udp,            \* UdpMetrics: the number of datagrams received, the shape of the last
    environ,        \* os.environ: the values of HORNET_PID and HORNET_PIDFILE
    HORNET_PID,     \* the resolved PID, or None
    disc,           \* _discover_pid_periodically: its await, prev, what it has consulted
    ctl,            \* pause/resume: the calls made, os.kill's deliveries, the last result
    stop            \* main: the future it awaits, then its return into asyncio.run

pidVars == <<environ, HORNET_PID, disc, ctl>>
relayVars == <<RELIABLE_RING, SUBS, tcp, bc, waitq, sub, conn, wire, published, nread, udp>>
vars == <<relayVars, pidVars, stop>>

\* ------------------------------------------------------------ text values
\* A line of the upstream is identified by its serial number k and the
\* connection (session) it was sent on; form is the shape of its content.
LineForms == {"blank", "text", "scalar", "console", "console_nomsg",
              "reliable", "metrics", "other", "notag"}

EmptyStr == [form |-> "empty", k |-> 0, sess |-> 0, nl |-> FALSE]

RawLine(form, k, sess) == [form |-> form, k |-> k, sess |-> sess, nl |-> TRUE]

\* line.decode('utf-8','ignore').strip(): drops the terminator and the
\* surrounding white space; a blank line becomes the empty string.
Strip(line) ==
    IF line.form \in {"blank", "empty"} THEN EmptyStr
    ELSE [line EXCEPT !.nl = FALSE]

\* a parse whose error on text that is not JSON is not the one the client catches
JsonLoads_ErrorEscapes(s) ==
    IF s.form = "text"
    THEN [py |-> "raise", t |-> "", msg |-> EmptyStr, src |-> s]
    ELSE [py |-> "dict", t |-> s.form, msg |-> EmptyStr, src |-> s]

\* json.loads(s): raises on text that is not JSON (py = "error"), returns an
\* int for a scalar, a dict for an object.
JsonLoads(s) ==
    CASE s.form = "text" -> [py |-> "error", t |-> "", msg |-> EmptyStr, src |-> s]
      [] s.form = "scalar" -> [py |-> "int", t |-> "", msg |-> EmptyStr, src |-> s]
      [] s.form = "console" ->
             [py |-> "dict", t |-> "console",
              msg |-> [form |-> "msg", k |-> s.k, sess |-> s.sess, nl |-> FALSE], src |-> s]
      [] s.form = "console_nomsg" -> [py |-> "dict", t |-> "console", msg |-> EmptyStr, src |-> s]
      [] s.form = "reliable" -> [py |-> "dict", t |-> "reliable", msg |-> EmptyStr, src |-> s]
      [] s.form = "metrics" -> [py |-> "dict", t |-> "metrics", msg |-> EmptyStr, src |-> s]
      [] s.form = "other" -> [py |-> "dict", t |-> "other", msg |-> EmptyStr, src |-> s]
      [] OTHER -> [py |-> "dict", t |-> "", msg |-> EmptyStr, src |-> s]

\* the dict {"msg": m}
MsgDict(m) == [py |-> "dict", wrap |-> "msg", body |-> m]

\* the dict obj as broadcast_async receives it
ObjDict(obj) == [py |-> "dict", wrap |-> "obj", body |-> obj.src]

\* json.dumps(x, separators=(',',':')): a str
JsonDumps(x) == [py |-> "str", wrap |-> x.wrap, body |-> x.body]

\* f"event: {event}\n" + "data: " + data + "\n\n"
Frame(event, data) == [event |-> event, data |-> data]

\* the frame broadcast_async builds from its arguments
BroadcastFrame(event, obj_or_json) ==
    LET data == IF obj_or_json.py \in {"dict", "list"} THEN JsonDumps(obj_or_json)
                ELSE obj_or_json
    IN Frame(event, data)

\* (a client that appended the record only after the broadcast had returned)
RingAppend_AfterBroadcast(ring, packed) == ring

\* a trim that keeps the oldest entries instead of the newest
RingAppend_KeepOldest(ring, packed) ==
    LET r == Append(ring, packed)
    IN IF Len(r) > RING_MAX THEN SubSeq(r, 1, RING_MAX) ELSE r

\* RELIABLE_RING.append(packed) and the trim that follows it
RingAppend(ring, packed) ==
    LET r == Append(ring, packed)
    IN IF Len(r) > RING_MAX THEN SubSeq(r, Len(r) - RING_MAX + 1, Len(r)) ELSE r

\* RELIABLE_RING[-RING_MAX:]
RingTail(ring) ==
    IF Len(ring) > RING_MAX THEN SubSeq(ring, Len(ring) - RING_MAX + 1, Len(ring)) ELSE ring

\* list(SUBS): the responses of S in the iteration order of the set.  The
\* order is fixed by the identity of the responses; which client gets which
\* identity is arbitrary, so every consistent order is covered.
RECURSIVE SetToSeq(_)
SetToSeq(S) ==
    IF S = {} THEN <<>>
    ELSE LET m == CHOOSE x \in S : \A y \in S : x <= y
         IN <<m>> \o SetToSeq(S \ {m})

\* ------------------------------------------------------ process discovery
\* PIDs are naturals here; None stands for Python's None.
None == 0 - 1

\* values of the variable HORNET_PID in the environment
EnvValues == {"unset", "abc", "0", "4321"}
\* HORNET_PIDFILE: unset, the path of a file that cannot be opened, or the
\* content of the file
PidfileValues == {"unset", "missing", "abc", "1234"}
\* results of a scan of the process table: no match, or the PID chosen
ScanValues == {None, 8888, 9999}

\* int(v): the texts that are integers
IsInt(v) == v \in {"0", "1234", "4321"}
IntOf(v) == CASE v = "0" -> 0 [] v = "1234" -> 1234 [] v = "4321" -> 4321

\* _env_pid()
env_pid(v) ==
    IF v \in {"unset", ""} THEN None
    ELSE IF IsInt(v) THEN IntOf(v) ELSE None

\* _pidfile_pid()
pidfile_pid(pf) ==
    IF pf \in {"unset", ""} THEN None
    ELSE IF pf # "missing" /\ IsInt(pf) THEN IntOf(pf) ELSE None

\* Python's truth value of an int or None
Truthy(x) == x # None /\ x # 0

\* the pidfile taking precedence over the override
FixedPid_PidfileFirst(env) ==
    IF Truthy(pidfile_pid(env.pidfile)) THEN pidfile_pid(env.pidfile) ELSE env_pid(env.pid)

\* fixed = _env_pid() or _pidfile_pid()
FixedPid(env) ==
    IF Truthy(env_pid(env.pid)) THEN env_pid(env.pid) ELSE pidfile_pid(env.pidfile)

InitPidVars(e, pf) ==
    /\ environ = [pid |-> e, pidfile |-> pf]
    /\ HORNET_PID = None
    /\ disc = [pc |-> "start", prev |-> None, scans |-> 0, readfile |-> FALSE,
               found |-> None, writes |-> 0]
    /\ ctl = [calls |-> 0, kills |-> <<>>, last |-> [sig |-> "none", kill |-> "none", ok |-> FALSE, err |-> "none"]]

\* (a scan whose empty result forgot the PID held so far)
ScanResult_ForgetsOnNone(pid, d) ==
    IF pid # d.prev
    THEN /\ HORNET_PID' = pid
         /\ disc' = [d EXCEPT !.pc = "sleep", !.prev = pid, !.found = pid, !.writes = @ + 1]
    ELSE /\ HORNET_PID' = HORNET_PID
         /\ disc' = [d EXCEPT !.pc = "sleep", !.found = pid]

\* if pid != prev and pid is not None: HORNET_PID = pid; prev = pid; then the
\* sleep (disc.found remembers what the pass found, disc.writes counts the
\* assignments to HORNET_PID)
ScanResult(pid, d) ==
    IF pid # d.prev /\ pid # None
    THEN /\ HORNET_PID' = pid
         /\ disc' = [d EXCEPT !.pc = "sleep", !.prev = pid, !.found = pid, !.writes = @ + 1]
    ELSE /\ HORNET_PID' = HORNET_PID
         /\ disc' = [d EXCEPT !.pc = "sleep", !.found = pid]

\* one pass of the loop up to its await: psutil's scan returned p; on None
\* the task awaits pgrep
ScanPass(p, d) ==
    LET d1 == [d EXCEPT !.scans = d.scans + 1]
    IN IF p = None
       THEN /\ disc' = [d1 EXCEPT !.pc = "pgrep"]
            /\ HORNET_PID' = HORNET_PID
       ELSE ScanResult(p, d1)

\* the task's first run: the fixed sources, then, without them, the first pass
DiscoverStart(p) ==
    /\ disc.pc = "start"
    /\ LET d == [disc EXCEPT !.readfile = ~Truthy(env_pid(environ.pid))]
           fixed == FixedPid(environ)
       IN IF fixed # None
          THEN /\ HORNET_PID' = fixed
               /\ disc' = [d EXCEPT !.pc = "done", !.writes = @ + 1]
          ELSE ScanPass(p, d)
    /\ UNCHANGED <<stop, relayVars, environ, ctl>>

\* _pgrep_scan_pid() returns r
DiscoverPgrep(r) ==
    /\ disc.pc = "pgrep"
    /\ ScanResult(r, disc)
    /\ UNCHANGED <<stop, relayVars, environ, ctl>>

\* asyncio.sleep(PID_REFRESH_SEC) returns: the next pass
DiscoverWake(p) ==
    /\ disc.pc = "sleep"
    /\ disc.scans < MaxScans
    /\ ScanPass(p, disc)
    /\ UNCHANGED <<stop, relayVars, environ, ctl>>

\* -------------------------------------------------------- process control
KillOutcomes == {"ok", "ProcessLookupError", "PermissionError", "OSError"}

\* a send_signal without the test of HORNET_PID
send_signal_NoCheck(sig, outcome) ==
    ctl' = [ctl EXCEPT !.calls = @ + 1,
                       !.kills = Append(@, <<HORNET_PID, sig>>),
                       !.last = [sig |-> sig, kill |-> outcome,
                                 ok |-> outcome = "ok", err |-> outcome]]

\* (a send_signal that reports success whatever os.kill raises)
send_signal_AlwaysOk(sig, outcome) ==
    IF HORNET_PID = None
    THEN ctl' = [ctl EXCEPT !.calls = @ + 1,
                            !.last = [sig |-> sig, kill |-> "none",
                                      ok |-> FALSE, err |-> "hornet PID not found"]]
    ELSE ctl' = [ctl EXCEPT !.calls = @ + 1,
                            !.kills = Append(@, <<HORNET_PID, sig>>),
                            !.last = [sig |-> sig, kill |-> outcome,
                                      ok |-> TRUE, err |-> "None"]]

\* send_signal(sig), os.kill ending as outcome (ctl.last remembers the call:
\* the signal, how os.kill ended, and the (ok, error) returned)
send_signal(sig, outcome) ==
    IF HORNET_PID = None
    THEN ctl' = [ctl EXCEPT !.calls = @ + 1,
                            !.last = [sig |-> sig, kill |-> "none",
                                      ok |-> FALSE, err |-> "hornet PID not found"]]
    ELSE ctl' = [ctl EXCEPT !.calls = @ + 1,
                            !.kills = Append(@, <<HORNET_PID, sig>>),
                            !.last = [sig |-> sig, kill |-> outcome, ok |-> outcome = "ok",
                                      err |-> CASE outcome = "ok" -> "None"
                                                [] outcome = "ProcessLookupError" -> "process not found"
                                                [] outcome = "PermissionError" -> "permission denied sending signal"
                                                [] OTHER -> "str(e)"]]

\* POST /api/pause; the server takes requests once main has started it
pause_api(outcome) ==
    /\ disc.pc # "start"
    /\ ctl.calls < MaxCalls
    /\ send_signal("SIGSTOP", outcome)
    /\ UNCHANGED <<stop, relayVars, environ, HORNET_PID, disc>>

\* POST /api/resume
resume_api(outcome) ==
    /\ disc.pc # "start"
    /\ ctl.calls < MaxCalls
    /\ send_signal("SIGCONT", outcome)
    /\ UNCHANGED <<stop, relayVars, environ, HORNET_PID, disc>>

\* ------------------------------------------------------------------ Init
NoFrame == Frame("none", [py |-> "str", wrap |-> "none", body |-> EmptyStr])
IdleBc == [st |-> "idle", frame |-> NoFrame, todo |-> <<>>, dead |-> {}]
IdleSub == [pc |-> "idle", snap |-> <<>>, snap0 |-> <<>>, pub0 |-> 0, sess0 |-> 0]

InitRelay ==
    /\ RELIABLE_RING = <<>>
    /\ SUBS = {}
    /\ tcp = [pc |-> "connect", conn |-> 0, line |-> EmptyStr, was |-> "none"]
    /\ bc = [t \in Tasks |-> IdleBc]
    /\ waitq = [s \in Subs |-> <<>>]
    /\ sub = [s \in Subs |-> IdleSub]
    /\ conn = [s \in Subs |-> "none"]
    /\ wire = [s \in Subs |-> <<>>]
    /\ published = <<>>
    /\ nread = 0
    /\ udp = [n |-> 0, last |-> "none"]
    /\ stop = "pending"

\* the relay started with neither HORNET_PID nor HORNET_PIDFILE set
Init ==
    /\ InitRelay
    /\ InitPidVars("unset", "unset")

\* ------------------------------------------------------- broadcast_async
\* index of the first response of todo whose write does not raise at once
\* (0 when there is none): a write to a closed connection raises.
FirstOpen(todo) ==
    IF \E i \in 1..Len(todo) : conn[todo[i]] # "closed"
    THEN CHOOSE i \in 1..Len(todo) :
             /\ conn[todo[i]] # "closed"
             /\ \A j \in 1..(i-1) : conn[todo[j]] = "closed"
    ELSE 0

\* Runs the loop `for s in list(SUBS): await s.write(frame)` of task from the
\* response todo[1] on, up to the next suspension or to the end of the
\* function (the prune of the dead responses).
BcRun(task, frame, todo, dead, wq) ==
    LET i == FirstOpen(todo)
        failed == {todo[j] : j \in 1..(IF i = 0 THEN Len(todo) ELSE i - 1)}
    IN IF i = 0
       THEN /\ SUBS' = SUBS \ (dead \cup failed)
            /\ bc' = [bc EXCEPT ![task] = IdleBc]
            /\ waitq' = wq
            /\ wire' = wire
       ELSE /\ wire' = [wire EXCEPT ![todo[i]] = Append(@, frame)]
            /\ waitq' = [wq EXCEPT ![todo[i]] = Append(@, task)]
            /\ bc' = [bc EXCEPT ![task] =
                        [st |-> "wait", frame |-> frame,
                         todo |-> SubSeq(todo, i, Len(todo)),
                         dead |-> dead \cup failed]]
            /\ SUBS' = SUBS

\* the call broadcast_async(event, obj_or_json) up to its first suspension
broadcast_async(task, event, obj_or_json) ==
    LET frame == BroadcastFrame(event, obj_or_json)
    IN /\ published' = Append(published, frame)
       /\ BcRun(task, frame, SetToSeq(SUBS), {}, waitq)

\* a suspended s.write of a broadcast returns or raises
BcResume(task) ==
    /\ bc[task].st = "wait"
    /\ LET s == Head(bc[task].todo)
           rest == Tail(bc[task].todo)
       IN /\ Head(waitq[s]) = task
          /\ conn[s] \in {"open", "closed"}
          /\ BcRun(task, bc[task].frame, rest,
                   IF conn[s] = "closed" THEN bc[task].dead \cup {s} ELSE bc[task].dead,
                   [waitq EXCEPT ![s] = Tail(@)])
          /\ tcp' = IF task = TcpTask /\ FirstOpen(rest) = 0
                    THEN [tcp EXCEPT !.pc = "read"] ELSE tcp
    /\ UNCHANGED <<RELIABLE_RING, sub, conn, published, nread, udp, pidVars, stop>>

\* ------------------------------------------------------ tcp_jsonl_client
AfterCall == IF FirstOpen(SetToSeq(SUBS)) = 0 THEN "read" ELSE "bcast"

\* asyncio.open_connection returns
TcpConnected ==
    /\ tcp.pc = "connect"
    /\ tcp.conn < MaxConns
    /\ tcp' = [tcp EXCEPT !.pc = "read", !.conn = tcp.conn + 1]
    /\ UNCHANGED <<RELIABLE_RING, SUBS, bc, waitq, sub, conn, wire, published, nread, udp, pidVars, stop>>

\* asyncio.open_connection raises ConnectionRefusedError / OSError
TcpConnectFailed ==
    /\ tcp.pc = "connect"
    /\ tcp' = [tcp EXCEPT !.pc = "backoff"]
    /\ UNCHANGED <<RELIABLE_RING, SUBS, bc, waitq, sub, conn, wire, published, nread, udp, pidVars, stop>>

\* reader.readline() returns line: the body of the inner loop up to the next
\* await (tcp.line remembers the line, for the properties)
At(pc, line) == [tcp EXCEPT !.pc = pc, !.line = line]

HandleLine(line) ==
    IF line = EmptyStr
    THEN \* if not line: break; writer.close(); await writer.wait_closed()
         /\ tcp' = At("closing", line)
         /\ UNCHANGED <<RELIABLE_RING, SUBS, bc, waitq, wire, published>>
    ELSE LET s == Strip(line)
             obj == JsonLoads(s)
         IN IF s = EmptyStr
            THEN \* if not s: continue
                 /\ tcp' = At("read", line)
                 /\ UNCHANGED <<RELIABLE_RING, SUBS, bc, waitq, wire, published>>
            ELSE IF obj.py = "error"
            THEN /\ broadcast_async(TcpTask, "console", MsgDict(s))
                 /\ tcp' = At(AfterCall, line)
                 /\ UNCHANGED RELIABLE_RING
            ELSE IF obj.py # "dict"
            THEN \* obj.get raises AttributeError, which no handler of the task catches
                 /\ tcp' = At("crashed", line)
                 /\ UNCHANGED <<RELIABLE_RING, SUBS, bc, waitq, wire, published>>
            ELSE IF obj.t = "console"
            THEN /\ broadcast_async(TcpTask, "console", MsgDict(obj.msg))
                 /\ tcp' = At(AfterCall, line)
                 /\ UNCHANGED RELIABLE_RING
            ELSE IF obj.t = "reliable"
            THEN /\ RELIABLE_RING' = RingAppend(RELIABLE_RING, JsonDumps(ObjDict(obj)))
                 /\ broadcast_async(TcpTask, "reliable", JsonDumps(ObjDict(obj)))
                 /\ tcp' = At(AfterCall, line)
            ELSE IF obj.t = "metrics"
            THEN /\ broadcast_async(TcpTask, "metrics", ObjDict(obj))
                 /\ tcp' = At(AfterCall, line)
                 /\ UNCHANGED RELIABLE_RING
            ELSE /\ broadcast_async(TcpTask, "console", MsgDict(s))
                 /\ tcp' = At(AfterCall, line)
                 /\ UNCHANGED RELIABLE_RING

\* the upstream sends its next line
TcpReadLine(form) ==
    /\ tcp.pc = "read"
    /\ nread < MaxLines
    /\ nread' = nread + 1
    /\ HandleLine(RawLine(form, nread + 1, tcp.conn))
    /\ UNCHANGED <<sub, conn, udp, pidVars, stop>>

\* the upstream closes the connection: readline returns b""
TcpReadEof ==
    /\ tcp.pc = "read"
    /\ HandleLine(EmptyStr)
    /\ UNCHANGED <<sub, conn, nread, udp, pidVars, stop>>

\* reader.readline() raises OSError (connection reset)
TcpReadError ==
    /\ tcp.pc = "read"
    /\ tcp' = [tcp EXCEPT !.pc = "backoff"]
    /\ UNCHANGED <<RELIABLE_RING, SUBS, bc, waitq, sub, conn, wire, published, nread, udp, pidVars, stop>>

\* writer.wait_closed() returns
TcpClosed ==
    /\ tcp.pc = "closing"
    /\ tcp' = [tcp EXCEPT !.pc = "sleep"]
    /\ UNCHANGED <<RELIABLE_RING, SUBS, bc, waitq, sub, conn, wire, published, nread, udp, pidVars, stop>>

\* (a client that returned after its first backoff instead of looping)
TcpWake_GiveUp ==
    /\ tcp.pc \in {"backoff", "sleep"}
    /\ tcp' = [tcp EXCEPT !.pc = IF tcp.pc = "backoff" THEN "sleep" ELSE "ended"]
    /\ UNCHANGED <<RELIABLE_RING, SUBS, bc, waitq, sub, conn, wire, published, nread, udp, pidVars, stop>>

\* asyncio.sleep(0.5) returns: the one of the except clause, then the one
\* at the end of the outer loop
TcpWake ==
    /\ tcp.pc \in {"backoff", "sleep"}
    /\ tcp' = [tcp EXCEPT !.pc = IF tcp.pc = "backoff" THEN "sleep" ELSE "connect"]
    /\ UNCHANGED <<RELIABLE_RING, SUBS, bc, waitq, sub, conn, wire, published, nread, udp, pidVars, stop>>

\* ----------------------------------------------------------- sse_handler
ReplayFrame(s) == Frame("reliable", s)

\* a dashboard client requests /stream: the handler starts and suspends in
\* resp.prepare
SseRequest(s) ==
    /\ sub[s].pc = "idle"
    /\ sub' = [sub EXCEPT ![s].pc = "prepare"]
    /\ conn' = [conn EXCEPT ![s] = "open"]
    /\ UNCHANGED <<RELIABLE_RING, SUBS, tcp, bc, waitq, wire, published, nread, udp, pidVars, stop>>

\* (a handler that registered the response before the replay loop)
SsePrepared_AddFirst(s) ==
    /\ sub[s].pc = "prepare"
    /\ conn[s] # "closed"
    /\ LET snap == RingTail(RELIABLE_RING)
       IN /\ SUBS' = SUBS \cup {s}
          /\ IF snap = <<>>
             THEN /\ sub' = [sub EXCEPT ![s] = [pc |-> "live", snap |-> <<>>, snap0 |-> snap,
                                                pub0 |-> Len(published), sess0 |-> tcp.conn]]
                  /\ wire' = wire
             ELSE /\ wire' = [wire EXCEPT ![s] = Append(@, ReplayFrame(Head(snap)))]
                  /\ sub' = [sub EXCEPT ![s] = [pc |-> "replay", snap |-> snap, snap0 |-> snap,
                                                pub0 |-> Len(published), sess0 |-> tcp.conn]]
    /\ UNCHANGED <<RELIABLE_RING, tcp, bc, waitq, conn, published, nread, udp, pidVars, stop>>

\* resp.prepare returns: the slice RELIABLE_RING[-RING_MAX:] is taken and the
\* loop runs to its first write, or, the slice being empty, to SUBS.add and
\* the sleep
SsePrepared(s) ==
    /\ sub[s].pc = "prepare"
    /\ conn[s] # "closed"
    /\ LET snap == RingTail(RELIABLE_RING)
       IN IF snap = <<>>
          THEN /\ SUBS' = SUBS \cup {s}
               /\ sub' = [sub EXCEPT ![s] = [pc |-> "live", snap |-> <<>>, snap0 |-> snap,
                                             pub0 |-> Len(published), sess0 |-> tcp.conn]]
               /\ wire' = wire
          ELSE /\ wire' = [wire EXCEPT ![s] = Append(@, ReplayFrame(Head(snap)))]
               /\ sub' = [sub EXCEPT ![s] = [pc |-> "replay", snap |-> snap, snap0 |-> snap,
                                             pub0 |-> Len(published), sess0 |-> tcp.conn]]
               /\ SUBS' = SUBS
    /\ UNCHANGED <<RELIABLE_RING, tcp, bc, waitq, conn, published, nread, udp, pidVars, stop>>

\* a suspended resp.write of the replay loop returns: next write, or SUBS.add
SseReplayStep(s) ==
    /\ sub[s].pc = "replay"
    /\ conn[s] = "open"
    /\ LET rest == Tail(sub[s].snap)
       IN IF rest = <<>>
          THEN /\ SUBS' = SUBS \cup {s}
               /\ sub' = [sub EXCEPT ![s].pc = "live", ![s].snap = <<>>]
               /\ wire' = wire
          ELSE /\ wire' = [wire EXCEPT ![s] = Append(@, ReplayFrame(Head(rest)))]
               /\ sub' = [sub EXCEPT ![s].snap = rest]
               /\ SUBS' = SUBS
    /\ UNCHANGED <<RELIABLE_RING, tcp, bc, waitq, conn, published, nread, udp, pidVars, stop>>

\* resp.prepare or a resp.write of the replay loop raises (the client is
\* gone): the exception leaves the handler before SUBS.add
SseWriteFailed(s) ==
    /\ sub[s].pc \in {"prepare", "replay"}
    /\ conn[s] = "closed"
    /\ sub' = [sub EXCEPT ![s].pc = "done", ![s].snap = <<>>]
    /\ UNCHANGED <<RELIABLE_RING, SUBS, tcp, bc, waitq, conn, wire, published, nread, udp, pidVars, stop>>

\* (a handler without the finally clause: a cancelled handler stays registered)
HandlerCancel_NoFinally(s) ==
    /\ sub[s].pc \in {"prepare", "replay", "live"}
    /\ SUBS' = SUBS
    /\ sub' = [sub EXCEPT ![s].pc = "done", ![s].snap = <<>>]
    /\ conn' = [conn EXCEPT ![s] = "closed"]
    /\ UNCHANGED <<RELIABLE_RING, tcp, bc, waitq, wire, published, nread, udp, pidVars, stop>>

\* the handler task is cancelled at its current await: before the try the
\* CancelledError leaves the handler, in the sleep it is caught and the
\* finally clause discards the response.  A finished handler's response
\* takes no more writes.
HandlerCancel(s) ==
    /\ sub[s].pc \in {"prepare", "replay", "live"}
    /\ SUBS' = IF sub[s].pc = "live" THEN SUBS \ {s} ELSE SUBS
    /\ sub' = [sub EXCEPT ![s].pc = "done", ![s].snap = <<>>]
    /\ conn' = [conn EXCEPT ![s] = "closed"]
    /\ UNCHANGED <<RELIABLE_RING, tcp, bc, waitq, wire, published, nread, udp, pidVars, stop>>

\* the client goes away: writes to its response raise from now on
ClientClose(s) ==
    /\ conn[s] \in {"open", "stalled"}
    /\ conn' = [conn EXCEPT ![s] = "closed"]
    /\ UNCHANGED <<RELIABLE_RING, SUBS, tcp, bc, waitq, sub, wire, published, nread, udp, pidVars, stop>>

\* the client stops reading: writes to its response do not return any more
ClientStall(s) ==
    /\ conn[s] = "open"
    /\ conn' = [conn EXCEPT ![s] = "stalled"]
    /\ UNCHANGED <<RELIABLE_RING, SUBS, tcp, bc, waitq, sub, wire, published, nread, udp, pidVars, stop>>

\* ------------------------------------------------------------ UdpMetrics
\* A datagram is identified by its serial number; form is the shape of its
\* bytes: "metrics_dirty" is a metrics object with bytes that are not UTF-8
\* around it.
DatagramForms == {"metrics", "metrics_dirty", "other", "scalar", "text"}

\* data.decode('utf-8','ignore'): bytes that are not UTF-8 are left out
DecodeIgnore(data) ==
    IF data.form = "metrics_dirty" THEN [data EXCEPT !.form = "metrics"] ELSE data

\* (a listener that published every object, whatever its tag)
datagram_received_AnyObject(form) ==
    /\ udp.n < MaxDatagrams
    /\ udp' = [n |-> udp.n + 1, last |-> form]
    /\ LET data == [form |-> form, k |-> udp.n + 1, sess |-> 0, nl |-> FALSE]
           obj == JsonLoads(DecodeIgnore(data))
       IN IF obj.py = "dict"
          THEN bc' = [bc EXCEPT ![udp.n + 1] =
                        [st |-> "sched", frame |-> BroadcastFrame("metrics", ObjDict(obj)),
                         todo |-> <<>>, dead |-> {}]]
          ELSE bc' = bc
    /\ UNCHANGED <<RELIABLE_RING, SUBS, tcp, waitq, sub, conn, wire, published, nread, pidVars, stop>>

\* datagram_received(data, addr): a datagram that parses to a dict tagged
\* metrics schedules a broadcast task; anything else is dropped (udp.last
\* remembers the shape of the datagram, for the properties)
datagram_received(form) ==
    /\ udp.n < MaxDatagrams
    /\ udp' = [n |-> udp.n + 1, last |-> form]
    /\ LET data == [form |-> form, k |-> udp.n + 1, sess |-> 0, nl |-> FALSE]
           obj == JsonLoads(DecodeIgnore(data))
       IN IF obj.py = "dict" /\ obj.t = "metrics"
          THEN bc' = [bc EXCEPT ![udp.n + 1] =
                        [st |-> "sched", frame |-> BroadcastFrame("metrics", ObjDict(obj)),
                         todo |-> <<>>, dead |-> {}]]
          ELSE bc' = bc
    /\ UNCHANGED <<RELIABLE_RING, SUBS, tcp, waitq, sub, conn, wire, published, nread, pidVars, stop>>

\* the loop runs a task created by broadcast(): tasks start in the order of
\* their creation
UdpTaskStart(u) ==
    /\ bc[u].st = "sched"
    /\ \A v \in UdpTasks : v < u => bc[v].st # "sched"
    /\ published' = Append(published, bc[u].frame)
    /\ BcRun(u, bc[u].frame, SetToSeq(SUBS), {}, waitq)
    /\ UNCHANGED <<RELIABLE_RING, tcp, sub, conn, nread, udp, pidVars, stop>>

\* ------------------------------------------------------------------ main
\* SIGINT or SIGTERM: the signal handler cancels the future main awaits
StopSignal ==
    /\ stop = "pending"
    /\ disc.pc # "start"
    /\ stop' = "cancelled"
    /\ UNCHANGED <<relayVars, pidVars>>

\* main wakes with CancelledError, passes and returns; asyncio.run then
\* cancels every task that is not done: each will take CancelledError at the
\* await it is suspended in (tcp.was remembers which).  The tasks created by
\* broadcast() end there: `except Exception` does not catch CancelledError.
MainReturns ==
    /\ stop = "cancelled"
    /\ stop' = "returned"
    /\ tcp' = IF tcp.pc = "crashed" THEN tcp
              ELSE [tcp EXCEPT !.pc = "cancelling", !.was = tcp.pc]
    /\ disc' = IF disc.pc \in {"pgrep", "sleep"} THEN [disc EXCEPT !.pc = "cancelling"] ELSE disc
    /\ sub' = [s \in Subs |->
                  CASE sub[s].pc \in {"prepare", "replay"} -> [sub[s] EXCEPT !.pc = "cancel_pre"]
                    [] sub[s].pc = "live" -> [sub[s] EXCEPT !.pc = "cancel_live"]
                    [] OTHER -> sub[s]]
    /\ bc' = [t \in Tasks |->
                 CASE t = TcpTask /\ bc[t].st = "wait" -> [bc[t] EXCEPT !.st = "cancelling"]
                   [] t # TcpTask -> IdleBc
                   [] OTHER -> bc[t]]
    /\ waitq' = [s \in Subs |-> SelectSeq(waitq[s], LAMBDA x : x = TcpTask)]
    /\ UNCHANGED <<RELIABLE_RING, SUBS, conn, wire, published, nread, udp,
                   environ, HORNET_PID, ctl>>

RemoveFrom(seq, task) == SelectSeq(seq, LAMBDA x : x # task)

\* (a stream client that swallowed CancelledError and went on with its loop)
TcpCancelled_Swallowed ==
    /\ tcp.pc = "cancelling"
    /\ tcp' = [tcp EXCEPT !.pc = "sleep"]
    /\ bc' = [bc EXCEPT ![TcpTask] = IdleBc]
    /\ waitq' = [s \in Subs |-> RemoveFrom(waitq[s], TcpTask)]
    /\ UNCHANGED <<RELIABLE_RING, SUBS, sub, conn, wire, published, nread, udp, pidVars, stop>>

\* the stream client takes CancelledError at its await: inside the try it is
\* caught and the task returns, in the two backoff sleeps it leaves the
\* coroutine; a broadcast it was awaiting is abandoned with it
TcpCancelled ==
    /\ tcp.pc = "cancelling"
    /\ tcp' = [tcp EXCEPT !.pc = "cancelled"]
    /\ bc' = [bc EXCEPT ![TcpTask] = IdleBc]
    /\ waitq' = [s \in Subs |-> RemoveFrom(waitq[s], TcpTask)]
    /\ UNCHANGED <<RELIABLE_RING, SUBS, sub, conn, wire, published, nread, udp, pidVars, stop>>

\* a handler takes CancelledError: before the try it leaves the handler, in
\* the sleep it is caught and the finally clause discards the response
SseCancelled(s) ==
    /\ sub[s].pc \in {"cancel_pre", "cancel_live"}
    /\ SUBS' = IF sub[s].pc = "cancel_live" THEN SUBS \ {s} ELSE SUBS
    /\ sub' = [sub EXCEPT ![s].pc = "done", ![s].snap = <<>>]
    /\ conn' = [conn EXCEPT ![s] = "closed"]
    /\ UNCHANGED <<RELIABLE_RING, tcp, bc, waitq, wire, published, nread, udp, pidVars, stop>>

\* the discovery task takes CancelledError in its sleep or in pgrep
DiscCancelled ==
    /\ disc.pc = "cancelling"
    /\ disc' = [disc EXCEPT !.pc = "cancelled"]
    /\ UNCHANGED <<relayVars, environ, HORNET_PID, ctl, stop>>

\* ------------------------------------------------------- specifications
\* The relay under concurrent clients: the stream client on one connection
\* delivering console and reliable records, metrics datagrams, and clients
\* that attach, stall, go away and are cancelled at any moment.
FanoutForms == {"console", "reliable"}
FanoutDatagramForms == {"metrics", "other", "scalar", "text"}

Next ==
    \/ TcpConnected
    \/ \E form \in FanoutForms : TcpReadLine(form)
    \/ \E t \in Tasks : BcResume(t)
    \/ \E s \in Subs : SseRequest(s)
    \/ \E s \in Subs : SsePrepared(s)
    \/ \E s \in Subs : SseReplayStep(s)
    \/ \E s \in Subs : SseWriteFailed(s)
    \/ \E s \in Subs : HandlerCancel(s)
    \/ \E s \in Subs : ClientClose(s)
    \/ \E s \in Subs : ClientStall(s)
    \/ \E form \in FanoutDatagramForms : udp.n < MaxFanoutDatagrams /\ datagram_received(form)
    \/ \E u \in UdpTasks : UdpTaskStart(u)

Spec == Init /\ [][Next]_vars

\* The stream client against every shape of upstream input, connection
\* failures and reconnects, with one dashboard client that attaches and reads.
IngestSubs == {CHOOSE s \in Subs : \A r \in Subs : s <= r}

NextIngest ==
    \/ TcpConnected
    \/ TcpConnectFailed
    \/ \E form \in LineForms : TcpReadLine(form)
    \/ TcpReadEof
    \/ TcpReadError
    \/ TcpClosed
    \/ TcpWake
    \/ BcResume(TcpTask)
    \/ \E s \in IngestSubs : SseRequest(s)
    \/ \E s \in IngestSubs : SsePrepared(s)
    \/ \E s \in IngestSubs : SseReplayStep(s)

SpecIngest == Init /\ [][NextIngest]_vars

\* Process discovery and control, for every setting of the environment.
InitPid ==
    /\ InitRelay
    /\ \E e \in EnvValues, pf \in PidfileValues : InitPidVars(e, pf)

NextPid ==
    \/ \E p \in ScanValues : DiscoverStart(p)
    \/ \E r \in ScanValues : DiscoverPgrep(r)
    \/ \E p \in ScanValues : DiscoverWake(p)
    \/ \E o \in KillOutcomes : pause_api(o)
    \/ \E o \in KillOutcomes : resume_api(o)

SpecPid == InitPid /\ [][NextPid]_vars

\* The replay ring under a burst of records that overflows it: console
\* records arrive before the burst and once the ring is full.
RingForms ==
    IF nread < MaxLines \/ Len(RELIABLE_RING) = RING_MAX
    THEN {"console", "reliable"} ELSE {"reliable"}

BurstLine(form) ==
    /\ tcp.pc = "read"
    /\ nread < RING_MAX + MaxLines + MaxExtra
    /\ form \in RingForms
    /\ nread' = nread + 1
    /\ HandleLine(RawLine(form, nread + 1, tcp.conn))
    /\ UNCHANGED <<sub, conn, udp, pidVars, stop>>

NextRing ==
    \/ TcpConnected
    \/ \E form \in FanoutForms : BurstLine(form)

SpecRing == Init /\ [][NextRing]_vars

\* ============================================================ properties
\* position of a frame in the publish order
Pos(f) == CHOOSE i \in 1..Len(published) : published[i] = f

\* the frames the replay of a snapshot writes
ReplayOf(snap) == [i \in 1..Len(snap) |-> ReplayFrame(snap[i])]

Range(seq) == {seq[i] : i \in 1..Len(seq)}

\* C1 (as claimed): attach/publish seam.  Once an attached client is
\* registered and no broadcast is in flight, it has been written exactly one
\* copy of every record of the ring as it stood when the replay began and of
\* every event published since: no duplicate, no gap.
C1_AttachSeam ==
    \A s \in Subs :
        (/\ sub[s].pc = "live" /\ s \in SUBS /\ conn[s] = "open"
         /\ \A t \in Tasks : bc[t].st # "wait")
        => /\ \A i, j \in 1..Len(wire[s]) : i # j => wire[s][i] # wire[s][j]
           /\ Range(wire[s]) = Range(ReplayOf(sub[s].snap0))
                    \cup Range(SubSeq(published, sub[s].pub0 + 1, Len(published)))

\* C2 (as claimed): slow-consumer isolation.  No broadcast, and so no
\* ingestion task, ever waits on a client that has stopped reading.
C2_PublishNeverWaitsOnStalled ==
    \A t \in Tasks : bc[t].st = "wait" => conn[Head(bc[t].todo)] # "stalled"

\* the records of the stream that were broadcast as event kind, in arrival order
DataOf(kinds) ==
    LET sel == SelectSeq(published, LAMBDA f : f.event \in kinds /\ f.data.body.sess > 0)
    IN [i \in 1..Len(sel) |-> sel[i].data]

LastN(seq, n) == IF Len(seq) > n THEN SubSeq(seq, Len(seq) - n + 1, Len(seq)) ELSE seq

ClearFrame(c) ==
    Frame("clear", [py |-> "str", wrap |-> "clear",
                    body |-> [form |-> "clear", k |-> 0, sess |-> c, nl |-> FALSE]])

\* C4 (as claimed): clear on (re)connect.  Every data event read from a
\* connection is published after a Clear event of that connection.
C4_ClearBeforeData ==
    \A i \in 1..Len(published) :
        published[i].data.body.sess > 0
        => \E j \in 1..(i - 1) : published[j] = ClearFrame(published[i].data.body.sess)

\* C5 (as claimed): a client whose replay begins during upstream session c is
\* primed with records of session c only.
C5_NoStaleReplay ==
    \A s \in Subs : \A i \in 1..Len(sub[s].snap0) :
        sub[s].snap0[i].body.sess = sub[s].sess0

\* C6: a line that is not JSON is published as a Console event whose message
\* is the text of the line, and the client goes on reading the same
\* connection once that broadcast has returned.
C6_MalformedLineToConsole ==
    [][/\ (nread' = nread + 1 /\ tcp'.line.form = "text")
          => /\ published' = Append(published,
                    [event |-> "console",
                     data |-> [py |-> "str", wrap |-> "msg",
                               body |-> [form |-> "text", k |-> tcp'.line.k,
                                         sess |-> tcp'.line.sess, nl |-> FALSE]]])
             /\ tcp'.pc \in {"read", "bcast"}
             /\ tcp'.conn = tcp.conn
       /\ (tcp.pc = "bcast" /\ tcp.line.form = "text" /\ tcp'.pc # "bcast")
          => (tcp'.pc = "read" /\ tcp'.conn = tcp.conn)]_vars

\* C6 witness: a line that is not JSON was published to an attached client
\* and a later line of the same connection has been read.
C6_Witness ==
    \E i \in 1..Len(published) :
        /\ published[i].event = "console"
        /\ published[i].data.body.form = "text"
        /\ \E s \in Subs : \E n \in 1..Len(wire[s]) : wire[s][n] = published[i]
        /\ tcp.line.sess = published[i].data.body.sess
        /\ tcp.line.k > published[i].data.body.k

\* C7 (as claimed): no content of a line ends the stream ingestion task.
C7_IngestionSurvivesAnyLine == tcp.pc # "crashed"

\* a value of the environment that is a PID
IsPidText(v) == v \in {"1234", "4321"}

\* C8: PID resolution priority.  With an override in HORNET_PID the resolved
\* PID is the override from the first run of discovery on, no scan ever runs
\* and the pidfile is not read; with only a pidfile value the resolved PID
\* is that value and no scan runs; the pidfile is read only when the
\* override gives nothing.
C8_FixedPidWins ==
    /\ IsPidText(environ.pid)
       => /\ HORNET_PID \in {None, IntOf(environ.pid)}
          /\ disc.pc # "start" => (HORNET_PID = IntOf(environ.pid) /\ disc.pc = "done")
          /\ disc.scans = 0
          /\ ~disc.readfile
    /\ (~IsPidText(environ.pid) /\ IsPidText(environ.pidfile))
       => /\ HORNET_PID \in {None, IntOf(environ.pidfile)}
          /\ disc.pc # "start" => (HORNET_PID = IntOf(environ.pidfile) /\ disc.pc = "done")
          /\ disc.scans = 0
    /\ disc.readfile => environ.pid \in {"unset", "abc", "0"}

\* C8 witness: the override is 4321, discovery has run and control has been
\* used since.
C8_Witness ==
    /\ environ.pid = "4321"
    /\ environ.pidfile = "1234"
    /\ disc.pc = "done"
    /\ HORNET_PID = 4321
    /\ ctl.calls > 0

\* C9: pause and resume with no PID resolved fail with the no-target result
\* and deliver no signal.
C9_NoTargetNoKill ==
    [][(HORNET_PID = None /\ ctl'.calls = ctl.calls + 1)
       => /\ ctl'.kills = ctl.kills
          /\ ~ctl'.last.ok
          /\ ctl'.last.err = "hornet PID not found"]_vars

\* C9 witness: two calls were refused, no signal delivered, after a scan
\* that found no process.
C9_Witness ==
    /\ HORNET_PID = None
    /\ disc.scans > 0
    /\ ctl.calls = 2
    /\ ctl.kills = <<>>
    /\ ctl.last.err = "hornet PID not found"

\* C10 (as claimed): every client is written the events in publish order.
C10_PublishOrder ==
    \A s \in Subs : \A i, j \in 1..Len(wire[s]) :
        i < j => Pos(wire[s][i]) < Pos(wire[s][j])

\* ------------------------------------------------ scheduling of the loop
\* The event loop runs every task whose awaited operation has completed: a
\* broadcast whose write returned or raised, a handler whose prepare or
\* replay write returned, a task created by broadcast().  Nothing obliges a
\* client to go away, the framework to cancel a handler, or upstream to send.
FanoutFairness ==
    /\ \A t \in Tasks : WF_vars(BcResume(t))
    /\ \A s \in Subs : WF_vars(SsePrepared(s)) /\ WF_vars(SseReplayStep(s))
    /\ \A u \in UdpTasks : WF_vars(UdpTaskStart(u))

SpecFair == Init /\ [][Next]_vars /\ FanoutFairness

\* C11 (as claimed): a client that a broadcast removed from SUBS because the
\* write to it failed has its serving loop terminated.
C11_BrokenSubscriberLoopEnds ==
    \A s \in Subs : (sub[s].pc = "live" /\ s \notin SUBS) ~> (sub[s].pc = "done")

\* The stream client's own awaits complete: wait_closed returns, the backoff
\* sleeps elapse, and the operating system answers a connection attempt
\* (accepted, refused or timed out).  Upstream is free to stay silent.
IngestFairness ==
    /\ WF_vars(TcpClosed)
    /\ WF_vars(TcpWake)
    /\ WF_vars(TcpConnected \/ TcpConnectFailed)

SpecIngestFair == Init /\ [][NextIngest]_vars /\ IngestFairness

\* C12: after end-of-input or a connection error the stream client always
\* comes back to a connection attempt, through the backoff only, however many
\* connections were lost before; losing the connection never ends the task.
C12_ReconnectForever ==
    /\ (tcp.pc \in {"closing", "backoff", "sleep"}) ~> (tcp.pc = "connect")
    /\ [][/\ (tcp.pc = "connect" /\ tcp'.pc # "connect")
              => tcp'.pc \in {"read", "backoff"}
          /\ (tcp.pc = "closing" /\ tcp'.pc # "closing") => tcp'.pc = "sleep"
          /\ (tcp.pc = "backoff" /\ tcp'.pc # "backoff") => tcp'.pc = "sleep"
          /\ (tcp.pc = "sleep" /\ tcp'.pc # "sleep") => tcp'.pc = "connect"
          /\ (tcp.pc = "read" /\ tcp'.pc \notin {"read", "bcast", "crashed"})
              => tcp'.pc \in {"closing", "backoff"}]_vars

\* the client attempts a connection again after every connection the bound
\* allows was opened, carried a line and was lost
C12_Witness == tcp.pc = "connect" /\ tcp.conn = MaxConns /\ nread >= 1

\* the comment frame the claim expects first on every attached response
PrimingFrame ==
    Frame("comment", [py |-> "str", wrap |-> "none",
                      body |-> [form |-> "comment", k |-> 0, sess |-> 0, nl |-> FALSE]])

NextUdp ==
    \/ \E form \in DatagramForms : datagram_received(form)
    \/ \E u \in UdpTasks : UdpTaskStart(u)
    \/ \E u \in UdpTasks : BcResume(u)
    \/ \E s \in Subs : SseRequest(s)
    \/ \E s \in Subs : SsePrepared(s)
    \/ \E s \in Subs : ClientClose(s)

SpecUdp == Init /\ [][NextUdp]_vars

\* the datagram whose receipt is the step from udp to udp'
ThisDatagram == [form |-> udp'.last, k |-> udp'.n, sess |-> 0, nl |-> FALSE]

\* the receipt of a datagram leaves the ring, the clients and what was
\* published alone
DatagramLeavesRelayAlone ==
    UNCHANGED <<RELIABLE_RING, SUBS, tcp, waitq, sub, conn, wire, published, nread>>

\* C14 (as claimed): a datagram is scheduled for publishing exactly when it
\* is one well-formed JSON object, being dropped without effect otherwise.
C14_EveryObjectPublished ==
    [][udp'.n = udp.n + 1 =>
          /\ DatagramLeavesRelayAlone
          /\ IF udp'.last \in {"metrics", "other"}
             THEN bc'[udp'.n].st = "sched"
             ELSE bc' = bc]_vars

\* C14 (amended): a datagram is scheduled for publishing exactly when its
\* text, the bytes that are not UTF-8 left out, is a JSON object tagged
\* metrics, and what is scheduled is the Metrics frame of that object; every
\* other datagram changes nothing; the broadcast task publishes that frame
\* when it starts; the listener takes the next datagram whatever came before.
C14_MetricsObjectPublished ==
    /\ [][udp'.n = udp.n + 1 =>
              /\ DatagramLeavesRelayAlone
              /\ IF udp'.last \in {"metrics", "metrics_dirty"}
                 THEN bc' = [bc EXCEPT ![udp'.n] =
                                [st |-> "sched",
                                 frame |-> Frame("metrics",
                                     [py |-> "str", wrap |-> "obj",
                                      body |-> [ThisDatagram EXCEPT !.form = "metrics"]]),
                                 todo |-> <<>>, dead |-> {}]]
                 ELSE bc' = bc]_vars
    /\ [][\A u \in UdpTasks : (bc[u].st = "sched" /\ bc'[u].st # "sched") =>
              published' = Append(published, bc[u].frame)]_vars
    /\ [](udp.n < MaxDatagrams =>
              \A form \in DatagramForms : ENABLED datagram_received(form))

\* a malformed datagram was dropped and the metrics datagram after it was
\* published to a registered client
C14_Witness ==
    /\ udp.n = 2
    /\ udp.last = "metrics"
    /\ bc[1].st = "idle"
    /\ Len(published) = 1
    /\ published[1].event = "metrics"
    /\ \E s \in SUBS : wire[s] = published

\* C15: with a PID resolved, every pause or resume sends its signal to that
\* PID once and returns one (ok, error) pair that tells how os.kill ended:
\* success, target not found, permission denied, or the text of any other
\* error; the call changes neither the PID, the discovery, the ring nor the
\* set of clients.
C15_ControlReportsOutcome ==
    [][(HORNET_PID # None /\ ctl'.calls = ctl.calls + 1) =>
          /\ ctl'.last.sig \in {"SIGSTOP", "SIGCONT"}
          /\ ctl'.kills = Append(ctl.kills, <<HORNET_PID, ctl'.last.sig>>)
          /\ ctl'.last.kill \in KillOutcomes
          /\ ctl'.last.kill = "ok" => (ctl'.last.ok /\ ctl'.last.err = "None")
          /\ ctl'.last.kill = "ProcessLookupError" =>
                 (~ctl'.last.ok /\ ctl'.last.err = "process not found")
          /\ ctl'.last.kill = "PermissionError" =>
                 (~ctl'.last.ok /\ ctl'.last.err = "permission denied sending signal")
          /\ ctl'.last.kill = "OSError" => (~ctl'.last.ok /\ ctl'.last.err = "str(e)")
          /\ UNCHANGED <<HORNET_PID, disc, environ, RELIABLE_RING, SUBS>>]_vars

\* a call failed on a process that is gone, after an earlier call, and the
\* relay still holds the PID
C15_Witness ==
    /\ HORNET_PID # None
    /\ ctl.calls = 2
    /\ Len(ctl.kills) = 2
    /\ ctl.last.kill = "ProcessLookupError"
    /\ ~ctl.last.ok

\* The relay up to and through its shutdown: the stream client connecting,
\* waiting for a line, losing the connection and backing off, clients that
\* attach, the periodic discovery finding no process, then the termination
\* signal.  Once asyncio.run has cancelled the tasks the loop serves no new
\* request.
ShutdownScanValues == {None}

NextShutdown ==
    \/ TcpConnected
    \/ TcpConnectFailed
    \/ TcpReadEof
    \/ TcpReadError
    \/ TcpClosed
    \/ TcpWake
    \/ \E s \in Subs : stop # "returned" /\ SseRequest(s)
    \/ \E s \in Subs : SsePrepared(s)
    \/ \E p \in ShutdownScanValues : DiscoverStart(p)
    \/ \E r \in ShutdownScanValues : DiscoverPgrep(r)
    \/ \E p \in ShutdownScanValues : DiscoverWake(p)
    \/ StopSignal
    \/ MainReturns
    \/ TcpCancelled
    \/ \E s \in Subs : SseCancelled(s)
    \/ DiscCancelled

\* asyncio.run runs the loop until every task it cancelled is done: main's
\* return and each delivery of CancelledError do happen.
ShutdownFairness ==
    /\ WF_vars(MainReturns)
    /\ WF_vars(TcpCancelled)
    /\ WF_vars(DiscCancelled)
    /\ \A s \in Subs : WF_vars(SseCancelled(s))

SpecShutdown == Init /\ [][NextShutdown]_vars /\ ShutdownFairness

AllStopped ==
    /\ tcp.pc \in {"cancelled", "crashed"}
    /\ disc.pc \in {"cancelled", "done"}
    /\ \A s \in Subs : sub[s].pc \in {"idle", "done"}
    /\ SUBS = {}
    /\ \A t \in Tasks : bc[t].st = "idle"

\* C16: after the termination signal the stream client, the discovery task
\* and every handler end; from the moment the tasks are cancelled none of
\* them takes another step of its own (no sleep is waited out, no read
\* completes, nothing more is written or published): its next step is its end.
C16_CoordinatedShutdown ==
    /\ (stop = "cancelled") ~> (stop = "returned" /\ AllStopped)
    /\ [][stop = "returned" =>
              /\ tcp'.pc # tcp.pc => tcp'.pc = "cancelled"
              /\ disc'.pc # disc.pc => disc'.pc = "cancelled"
              /\ \A s \in Subs : sub'[s].pc # sub[s].pc => sub'[s].pc = "done"
              /\ UNCHANGED <<RELIABLE_RING, wire, published, HORNET_PID>>]_vars

\* everything has stopped: the stream client was cancelled in its backoff
\* sleep, the discovery in its wait, and a registered client's handler ended
C16_Witness ==
    /\ stop = "returned"
    /\ AllStopped
    /\ tcp.pc = "cancelled"
    /\ tcp.was \in {"backoff", "sleep"}
    /\ disc.pc = "cancelled"
    /\ \E s \in Subs : sub[s].pc = "done" /\ sub[s].sess0 >= 1

C18_ResolvedPidMonotone ==
    /\ [](disc.pc = "start" => HORNET_PID = None)
    /\ [](disc.pc \in {"pgrep", "sleep"} => HORNET_PID = disc.prev)
    /\ [][HORNET_PID # None => HORNET_PID' # None]_vars
    /\ [][(disc' # disc /\ disc'.pc = "sleep" /\ disc'.found = None) =>
              (HORNET_PID' = HORNET_PID /\ disc'.writes = disc.writes)]_vars
    /\ [][IF disc'.writes # disc.writes
          THEN /\ HORNET_PID' # HORNET_PID
               /\ HORNET_PID' # None
               /\ disc'.pc = "sleep" => HORNET_PID' = disc'.found
          ELSE HORNET_PID' = HORNET_PID]_vars

\* the scan set the PID, replaced it by another, and then found no process
C18_Witness ==
    /\ disc.pc = "sleep"
    /\ disc.writes = 2
    /\ disc.found = None
    /\ HORNET_PID # None

\* the kind of event the claim gives a line of each shape
KindOfLine(form) ==
    CASE form = "reliable" -> "reliable"
      [] form = "metrics" -> "metrics"
      [] OTHER -> "console"

\* C19 (as claimed): every line read that is not blank is published as
\* exactly one event, of the kind its type tag fixes; a line with another
\* tag, with none, or that is no JSON object is published as a console event
\* wrapping the text of the line.
C19_EveryLineOneEvent ==
    [][(nread' = nread + 1 /\ Strip(tcp'.line) # EmptyStr) =>
          /\ Len(published') = Len(published) + 1
          /\ published'[Len(published')].event = KindOfLine(tcp'.line.form)
          /\ tcp'.line.form \in {"other", "notag", "text", "scalar"} =>
                 published'[Len(published')].data = JsonDumps(MsgDict(Strip(tcp'.line)))]_vars

\* The registry under clients that attach while reliable records arrive, go
\* away at any moment, and whose handlers are cancelled at any await.
NextRegistry ==
    \/ TcpConnected
    \/ TcpReadLine("reliable")
    \/ BcResume(TcpTask)
    \/ \E s \in Subs : SseRequest(s)
    \/ \E s \in Subs : SsePrepared(s)
    \/ \E s \in Subs : SseReplayStep(s)
    \/ \E s \in Subs : SseWriteFailed(s)
    \/ \E s \in Subs : HandlerCancel(s)
    \/ \E s \in Subs : ClientClose(s)

SpecRegistry == Init /\ [][NextRegistry]_vars

\* the clients whose handler has passed SUBS.add and has not ended
Serving == {s \in Subs : sub[s].pc \in {"live", "cancel_live"}}

\* C20: a response is in SUBS only while its handler is past the replay and
\* has not ended, so SUBS is never larger than the set of running handlers;
\* a broadcast that starts targets only responses of such handlers, and a
\* response whose handler has ended is written nothing more.
C20_RegistryInvariant ==
    /\ [](SUBS \subseteq Serving)
    /\ [](Cardinality(SUBS) <= Cardinality({s \in Subs : sub[s].pc \notin {"idle", "done"}}))
    /\ [][published' # published =>
              \A t \in Tasks : bc'[t] # bc[t] => Range(bc'[t].todo) \subseteq Serving]_vars
    /\ [][\A s \in Subs : sub[s].pc = "done" => wire'[s] = wire[s]]_vars

\* a handler ended after it was written a live event, another ended with no
\* more than its replay written, and every line was broadcast, the last
\* with no one registered any more
C20_Witness ==
    /\ \E s \in Subs : sub[s].pc = "done" /\ Len(wire[s]) > Len(sub[s].snap0)
    /\ \E s \in Subs : sub[s].pc = "done" /\ sub[s].snap0 # <<>> /\ Len(wire[s]) <= Len(sub[s].snap0)
    /\ SUBS = {}
    /\ Len(published) = MaxLines
====
